---- MODULE Spec2Model ----
(***************************************************************************)
(* Model of the dependency/entity engine of dependency_manager:            *)
(*   - DependencyAnalyzer (src/utils/dependency_analyzer.py): import       *)
(*     resolution, the inner-dependency tree and the recursive traversal;  *)
(*   - build_project_structure / extract_internal_module_paths             *)
(*     (src/build_project_structure.py);                                   *)
(*   - get_json_info_for_file / find_nearest_entity                        *)
(*     (src/make_file_summaries.py).                                       *)
(*                                                                         *)
(* A path is a sequence of components; a component is a record             *)
(* [n |-> name, ext |-> suffix] so that "x.py", its stem "x" and the       *)
(* directory "x" stay different things.  A dotted import string "a.b.C"    *)
(* is the sequence of its parts <<"a","b","C">> (what split('.') yields).  *)
(***************************************************************************)
EXTENDS Integers, Sequences, FiniteSets, TLC

VARIABLES
    pc,          \* position of the running program
    files,       \* the project folder: the set of existing files (relative paths)
    imports,     \* resolver run: visitor.file_info["imports"] handed to _classify_imports
    internal,    \* resolver run: the internal list returned by _classify_imports
    external,    \* resolver run: the external list returned by _classify_imports
    json_exists, \* locator run: whether the failing file's JSON record is on disk
    json_data,   \* locator run: the content of that JSON record
    json_info,   \* locator run: what get_json_info_for_file returned
    line_num,    \* locator run: the failing line
    nearest,     \* locator run: what find_nearest_entity returned
    json_folder,       \* dependency_analysis folder: JSON file path -> file_info
    project_structure, \* what build_project_structure wrote (modules, nodes, edges)
    source,       \* traversal: the import statements of every project file
    max_depth,    \* traversal: DependencyAnalyzer.max_depth
    visited,      \* traversal: DependencyAnalyzer.visited
    stack,        \* traversal: the active _recurse_inner_dependencies loops
    analysis_log, \* traversal: the files handed to _analyze_single_file, in order,
                  \* each with the depth of the call
    ast_body,         \* visitor run: the body of the parsed module
    todo,             \* visitor run: the visits and exits still to be made, in order
    visitor_info,     \* visitor run: DependencyVisitor.file_info (classes, functions)
    current_class,    \* visitor run: DependencyVisitor.current_class
    current_function  \* visitor run: DependencyVisitor.current_function

resolveVars == <<imports, internal, external>>
locVars == <<json_exists, json_data, json_info, line_num, nearest>>
structVars == <<json_folder, project_structure>>
travVars == <<source, max_depth, visited, stack, analysis_log>>
visitVars == <<ast_body, todo, visitor_info, current_class, current_function>>
vars == <<pc, files, resolveVars, locVars, structVars, travVars, visitVars>>

----------------------------------------------------------------------------
(* Bounds of the model *)

\* longest dotted import, in parts
MaxParts == 3
\* longest import list handed to _classify_imports in the resolver run
MaxImports == 1
\* most resolved internal imports of one file in the aggregator run
MaxDeps == 2
\* most import statements in the whole project of the traversal run
MaxImportStmts == 3
\* most import statements in the whole project of the pipeline run
MaxPipelineImportStmts == 2
\* most import statements in the whole project of the depth-order run
MaxOrderImportStmts == 4
\* largest max_depth the analyzer is configured with in the depth-order run
MaxOrderDepth == 2
\* largest max_depth the analyzer is configured with in the traversal run
MaxDepthCfg == 1
\* most import statements of the file in the single-file run
MaxRecordImports == 2
\* most AST nodes (class definitions, function definitions, calls) of the
\* module in the visitor run
MaxNodes == 4
\* most files of the project that fail to parse in the traversal run
MaxParseFailures == 1
\* largest line number of a record and of a failing location
MaxLine == 3
\* most entities (classes, methods and functions together) in one record
MaxEntities == 3

----------------------------------------------------------------------------
(* Paths *)

Dir(n) == [n |-> n, ext |-> ""]
Py(n) == [n |-> n, ext |-> ".py"]
Init_py == Py("__init__")

\* Python's seq[:k]
Take(s, k) == SubSeq(s, 1, IF k < Len(s) THEN k ELSE Len(s))
\* Python's seq[k:]
Drop(s, k) == SubSeq(s, k + 1, Len(s))
Last(s) == s[Len(s)]

\* the directories that exist: every proper prefix of an existing file
DirsOf(fs) == UNION {{Take(f, k) : k \in 0..(Len(f) - 1)} : f \in fs}

\* Path.exists() and Path.is_dir() inside the project folder
Exists(fs, p) == p \in fs \/ p \in DirsOf(fs)
IsDir(fs, p) == p \in DirsOf(fs)

\* base / p1 / ... / pk for directory names p1..pk
DirPath(names) == [k \in 1..Len(names) |-> Dir(names[k])]

----------------------------------------------------------------------------
(* DependencyAnalyzer._find_module_file *)

\* a mutant: the package initializer is tried before the file
FileOrPackage_PackageFirst(fs, base, name) ==
    IF Exists(fs, base \o <<Dir(name)>>)
       /\ Exists(fs, base \o <<Dir(name), Init_py>>)
    THEN base \o <<Dir(name), Init_py>>
    ELSE IF Exists(fs, base \o <<Py(name)>>)
         THEN base \o <<Py(name)>>
         ELSE <<>>

\* the file-or-package test of lines 177-186 and 195-205, under directory base
FileOrPackage(fs, base, name) ==
    IF Exists(fs, base \o <<Py(name)>>)
    THEN base \o <<Py(name)>>
    ELSE IF Exists(fs, base \o <<Dir(name)>>)
            /\ Exists(fs, base \o <<Dir(name), Init_py>>)
         THEN base \o <<Dir(name), Init_py>>
         ELSE <<>>

\* the walk of lines 189-192: every cumulative prefix is an existing directory
WalkOk(fs, names) ==
    \A k \in 1..Len(names) :
        /\ Exists(fs, DirPath(Take(names, k)))
        /\ IsDir(fs, DirPath(Take(names, k)))

\* None is modelled as the empty path <<>>
FindModuleFile(fs, parts) ==
    IF Len(parts) = 1
    THEN FileOrPackage(fs, <<>>, parts[1])
    ELSE IF ~WalkOk(fs, Take(parts, Len(parts) - 1))
         THEN <<>>
         ELSE FileOrPackage(fs, DirPath(Take(parts, Len(parts) - 1)), Last(parts))

----------------------------------------------------------------------------
(* DependencyAnalyzer._resolve_import and _classify_imports *)

NoResult == [found |-> FALSE, name |-> "", path |-> <<>>, sub_modules |-> <<>>]

\* the loop `for i in range(len(parts), 0, -1)`, entered at i
RECURSIVE ResolveFrom(_, _, _)
ResolveFrom(fs, parts, i) ==
    IF i = 0
    THEN NoResult
    ELSE LET candidate_file == FindModuleFile(fs, Take(parts, i))
         IN IF candidate_file # <<>>
            THEN [found |-> TRUE,
                  name |-> parts[i],
                  path |-> candidate_file,
                  sub_modules |-> IF i < Len(parts) THEN Drop(parts, i) ELSE <<>>]
            ELSE ResolveFrom(fs, parts, i - 1)

\* a mutant: the loop runs shortest prefix first
RECURSIVE ResolveUp(_, _, _)
ResolveUp(fs, parts, i) ==
    IF i > Len(parts)
    THEN NoResult
    ELSE LET candidate_file == FindModuleFile(fs, Take(parts, i))
         IN IF candidate_file # <<>>
            THEN [found |-> TRUE,
                  name |-> parts[i],
                  path |-> candidate_file,
                  sub_modules |-> IF i < Len(parts) THEN Drop(parts, i) ELSE <<>>]
            ELSE ResolveUp(fs, parts, i + 1)

ResolveImport_ShortestFirst(fs, import_name) == ResolveUp(fs, import_name, 1)

ResolveImport(fs, import_name) == ResolveFrom(fs, import_name, Len(import_name))

\* the (internal, external) pair built by the loop of lines 145-150
RECURSIVE ClassifyImports(_, _)
ClassifyImports(fs, imps) ==
    IF imps = <<>>
    THEN [internal |-> <<>>, external |-> <<>>]
    ELSE LET rest == ClassifyImports(fs, Take(imps, Len(imps) - 1))
             imp == Last(imps)
             result == ResolveImport(fs, imp)
         IN IF result.found
            THEN [internal |-> Append(rest.internal, result), external |-> rest.external]
            ELSE [internal |-> rest.internal, external |-> Append(rest.external, imp)]

----------------------------------------------------------------------------
(* Values of the variables a run does not use *)

None == [kind |-> "None", name |-> "", cls |-> ""]
EmptyRecord == [classes |-> <<>>, functions |-> <<>>]
LocIdle ==
    /\ json_exists = FALSE
    /\ json_data = EmptyRecord
    /\ json_info = EmptyRecord
    /\ line_num = 0
    /\ nearest = None

ResolveIdle ==
    /\ imports = <<>>
    /\ internal = <<>>
    /\ external = <<>>

NoStructure == [built |-> FALSE, modules |-> <<>>, nodes |-> <<>>, edges |-> <<>>]

StructIdle ==
    /\ json_folder = <<>>
    /\ project_structure = NoStructure

\* max_depth = None
NoMaxDepth == -1

TravIdle ==
    /\ source = <<>>
    /\ max_depth = NoMaxDepth
    /\ visited = {}
    /\ stack = <<>>
    /\ analysis_log = <<>>

\* current_class = None
NoClass == ""
\* current_function = None; otherwise the function_info dict it refers to is
\* named by the class it was stored under and its name
NoFunction == [cls |-> "", name |-> ""]

VisitIdle ==
    /\ ast_body = <<>>
    /\ todo = <<>>
    /\ visitor_info = EmptyRecord
    /\ current_class = NoClass
    /\ current_function = NoFunction

----------------------------------------------------------------------------
(* The resolver run: a project folder and an import list are given, then   *)
(* _classify_imports runs on them.                                          *)

\* names used for directories, modules and import parts
PartNames == {"a", "b"}

\* the files a project folder of the resolver run may hold
FileUniverse ==
    { <<Py("a")>>, <<Py("b")>>,
      <<Dir("a"), Init_py>>,
      <<Dir("a"), Py("b")>>,
      <<Dir("a"), Dir("b"), Init_py>>,
      <<Dir("a"), Dir("b"), Py("a")>> }

RECURSIVE SeqsUpTo(_, _)
SeqsUpTo(S, n) ==
    IF n = 0
    THEN {<<>>}
    ELSE LET shorter == SeqsUpTo(S, n - 1)
         IN shorter \cup {Append(s, x) : s \in shorter, x \in S}

ImportNames == SeqsUpTo(PartNames, MaxParts) \ {<<>>}

InitResolve ==
    /\ pc = "resolve_start"
    /\ files \in SUBSET FileUniverse
    /\ imports \in SeqsUpTo(ImportNames, MaxImports)
    /\ internal = <<>>
    /\ external = <<>>
    /\ LocIdle
    /\ StructIdle
    /\ TravIdle
    /\ VisitIdle

ClassifyImportsCall ==
    /\ pc = "resolve_start"
    /\ LET r == ClassifyImports(files, imports)
       IN /\ internal' = r.internal
          /\ external' = r.external
    /\ pc' = "resolve_done"
    /\ UNCHANGED <<files, visitVars, imports, locVars, structVars, travVars>>

NextResolve == ClassifyImportsCall

SpecResolve == InitResolve /\ [][NextResolve]_vars

----------------------------------------------------------------------------
(* Claims about the resolver (checked under SpecResolve) *)

\* the project files the prefix p1..pi of imp denotes, stated from the file
\* system alone: p1..p(i-1) are nested existing directories and pi.py or
\* pi/__init__.py is a file below them
PrefixFiles(imp, i) ==
    LET base == DirPath(Take(imp, i - 1))
    IN IF \E k \in 1..(i - 1) : DirPath(Take(imp, k)) \notin DirsOf(files)
       THEN {}
       ELSE {base \o <<Py(imp[i])>>, base \o <<Dir(imp[i]), Init_py>>} \cap files

Resolvable(imp) == \E i \in 1..Len(imp) : PrefixFiles(imp, i) # {}
Unresolvable(imp) == ~Resolvable(imp)

LargestPrefix(imp) ==
    CHOOSE i \in 1..Len(imp) :
        /\ PrefixFiles(imp, i) # {}
        /\ \A j \in (i + 1)..Len(imp) : PrefixFiles(imp, j) = {}

\* the length of the prefix an internal entry was resolved at
ResolvedAt(imp, entry) == Len(imp) - Len(entry.sub_modules)

\* C3: every import that has a resolving prefix yields, in order, one internal
\* entry for its largest resolving prefix p1..pi, whose sub_modules are exactly
\* p(i+1)..pn and whose directories p1..p(i-1) all exist; every import without
\* a resolving prefix is in the external list unchanged and in order, and
\* contributes nothing to the internal list.
C3_LongestPrefixFirst ==
    pc = "resolve_done" =>
        /\ external = SelectSeq(imports, Unresolvable)
        /\ LET wanted == SelectSeq(imports, Resolvable)
           IN /\ Len(internal) = Len(wanted)
              /\ \A k \in 1..Len(wanted) :
                    LET imp == wanted[k]
                        i == LargestPrefix(imp)
                    IN /\ internal[k].name = imp[i]
                       /\ internal[k].path \in PrefixFiles(imp, i)
                       /\ internal[k].sub_modules = Drop(imp, i)
                       /\ \A d \in 1..(i - 1) : IsDir(files, DirPath(Take(imp, d)))

\* C3 witness: a three-part import resolved at its two-part prefix, a shorter
\* prefix resolving as well
C3_Witness ==
    /\ pc = "resolve_done"
    /\ \E k \in 1..Len(internal) :
          /\ Len(imports[k]) = 3
          /\ Len(internal[k].sub_modules) = 1
          /\ PrefixFiles(imports[k], 1) # {}
    /\ Len(internal) = Len(imports)

\* C4: an internal entry resolved at a prefix with last component x under
\* directory base is the file base/x.py whenever that file exists (also when
\* the package base/x/__init__.py exists too), and is base/x/__init__.py only
\* when base/x.py does not exist.
C4_FileBeforePackage ==
    pc = "resolve_done" =>
        \A k \in 1..Len(internal) :
            LET imp == SelectSeq(imports, Resolvable)[k]
                i == ResolvedAt(imp, internal[k])
                base == DirPath(Take(imp, i - 1))
                file == base \o <<Py(imp[i])>>
                package == base \o <<Dir(imp[i]), Init_py>>
            IN /\ file \in files => internal[k].path = file
               /\ internal[k].path = package => file \notin files
               /\ internal[k].path \in {file, package}

\* C4 witness: a multi-component prefix for which both the file and the
\* package initializer exist, resolved to the file
C4_Witness ==
    /\ pc = "resolve_done"
    /\ \E k \in 1..Len(internal) :
          LET imp == SelectSeq(imports, Resolvable)[k]
              i == ResolvedAt(imp, internal[k])
              base == DirPath(Take(imp, i - 1))
          IN /\ i > 1
             /\ base \o <<Py(imp[i])>> \in files
             /\ base \o <<Dir(imp[i]), Init_py>> \in files
             /\ internal[k].path = base \o <<Py(imp[i])>>

----------------------------------------------------------------------------
(* make_file_summaries.find_nearest_entity                                 *)
(*                                                                         *)
(* A record's "classes", a class's "methods" and the record's "functions"  *)
(* are dicts; each is modelled as the sequence of its values in iteration  *)
(* order, every value carrying its key as name.  The returned f-string is  *)
(* the record of its constant text and the names formatted into it.        *)

Method(m, c) == [kind |-> "Method", name |-> m, cls |-> c]
InsideClass(c) == [kind |-> "Inside class", name |-> "", cls |-> c]
Function(f) == [kind |-> "Function", name |-> f, cls |-> ""]
NearFunction(f) == [kind |-> "Near function", name |-> f, cls |-> ""]
NoEntity == [kind |-> "No nearby entity found", name |-> "", cls |-> ""]

Abs(x) == IF x < 0 THEN -x ELSE x
Min2(x, y) == IF x < y THEN x ELSE y

\* best_match = None, best_distance = float('inf')
Best0 == [match |-> None, inf |-> TRUE, dist |-> 0]

\* a mutant: dist <= best_distance, so the last of equally near entities wins
Closer_OrEqual(dist, best) == best.inf \/ dist <= best.dist

\* dist < best_distance
Closer(dist, best) == best.inf \/ dist < best.dist

Update(best, dist, match) ==
    IF Closer(dist, best) THEN [match |-> match, inf |-> FALSE, dist |-> dist] ELSE best

Contains(e, line) == e.start_line <= line /\ line <= e.end_line
EdgeDistance(e, line) == Min2(Abs(line - e.start_line), Abs(line - e.end_line))

\* the loop over methods.items() of lines 196-211, from the k-th method on
RECURSIVE ScanMethods(_, _, _, _, _)
ScanMethods(cls, methods, k, line, best) ==
    IF k > Len(methods)
    THEN best
    ELSE ScanMethods(cls, methods, k + 1, line,
            IF Contains(methods[k], line)
            THEN Update(best, 0, Method(methods[k].name, cls.name))
            ELSE Update(best, EdgeDistance(cls, line), InsideClass(cls.name)))

\* a mutant: a class that does not contain the line is scored by its distance
RECURSIVE ScanClasses_Proximity(_, _, _, _)
ScanClasses_Proximity(classes, k, line, best) ==
    IF k > Len(classes)
    THEN best
    ELSE ScanClasses_Proximity(classes, k + 1, line,
            IF Contains(classes[k], line)
            THEN ScanMethods(classes[k], classes[k].methods, 1, line, best)
            ELSE Update(best, EdgeDistance(classes[k], line), InsideClass(classes[k].name)))

\* the loop over classes.items() of lines 190-211, from the k-th class on
RECURSIVE ScanClasses(_, _, _, _)
ScanClasses(classes, k, line, best) ==
    IF k > Len(classes)
    THEN best
    ELSE ScanClasses(classes, k + 1, line,
            IF Contains(classes[k], line)
            THEN ScanMethods(classes[k], classes[k].methods, 1, line, best)
            ELSE best)

\* the loop over functions.items() of lines 216-228, from the k-th function on
RECURSIVE ScanFunctions(_, _, _, _)
ScanFunctions(functions, k, line, best) ==
    IF k > Len(functions)
    THEN best
    ELSE ScanFunctions(functions, k + 1, line,
            IF Contains(functions[k], line)
            THEN Update(best, 0, Function(functions[k].name))
            ELSE Update(best, EdgeDistance(functions[k], line),
                        NearFunction(functions[k].name)))

\* a mutant: the result is returned without the default text
ReturnValue_NoDefault(best) == best.match

\* best_match or "No nearby entity found"
ReturnValue(best) == IF best.match = None THEN NoEntity ELSE best.match

FindNearestEntity(info, line) ==
    LET afterClasses == ScanClasses(info.classes, 1, line, Best0)
    IN IF afterClasses.match = None
       THEN ReturnValue(ScanFunctions(info.functions, 1, line, afterClasses))
       ELSE ReturnValue(afterClasses)

\* get_json_info_for_file: the JSON content if the file is there, else {};
\* json_info.get("classes", {}) and .get("functions", {}) of {} are empty
GetJsonInfoForFile(exists, data) == IF exists THEN data ELSE EmptyRecord

----------------------------------------------------------------------------
(* The locator run: a record folder state, a failing line, then            *)
(* get_json_info_for_file and find_nearest_entity.                          *)

ClassNames == <<"C", "D", "E", "F", "G", "H">>
MethodNames == <<"m", "n", "o", "p", "q", "r">>
FunctionNames == <<"f", "g", "h", "i", "j", "k">>

Ranges(lo, hi) == {r \in (lo..hi) \X (lo..hi) : r[1] <= r[2]}

\* dict values in iteration order, the k-th keyed names[k]
Named(names, rs) ==
    [k \in 1..Len(rs) |-> [name |-> names[k], start_line |-> rs[k][1], end_line |-> rs[k][2]]]

\* a class of the given range with the given method ranges (a method lies in
\* the class body: after the class's first line, up to its last)
ClassValue(r, ms) ==
    [start_line |-> r[1], end_line |-> r[2], methods |-> Named(MethodNames, ms)]

\* the classes of a record holding at most n entities, methods included
RECURSIVE ClassLists(_)
ClassLists(n) ==
    IF n = 0
    THEN {<<>>}
    ELSE {<<>>} \cup
         UNION { UNION { { <<ClassValue(r, ms)>> \o rest : rest \in ClassLists(n - 1 - Len(ms)) }
                         : ms \in SeqsUpTo(Ranges(r[1] + 1, r[2]), n - 1) }
                 : r \in Ranges(1, MaxLine) }

Entities(classes) ==
    Len(classes) + (LET RECURSIVE Sum(_)
                        Sum(k) == IF k = 0 THEN 0 ELSE Len(classes[k].methods) + Sum(k - 1)
                    IN Sum(Len(classes)))

WithNames(classes) ==
    [k \in 1..Len(classes) |->
        [name |-> ClassNames[k], start_line |-> classes[k].start_line,
         end_line |-> classes[k].end_line, methods |-> classes[k].methods]]

AllClassLists == ClassLists(MaxEntities)
AllFunctionLists == SeqsUpTo(Ranges(1, MaxLine), MaxEntities)

\* the records the extractor can write: every range has start <= end
Records ==
    { [classes |-> WithNames(p[1]), functions |-> Named(FunctionNames, p[2])]
      : p \in UNION { {c \in AllClassLists : Entities(c) = n}
                       \X {f \in AllFunctionLists : Len(f) <= MaxEntities - n}
                      : n \in 0..MaxEntities } }

InitLocate ==
    /\ pc = "locate_start"
    /\ files = {}
    /\ ResolveIdle
    /\ LocIdle
    /\ StructIdle
    /\ TravIdle
    /\ VisitIdle

\* the record folder holds the failing file's JSON or not; the file is looked up
GetJsonInfoForFileCall ==
    /\ pc = "locate_start"
    /\ \E exists \in BOOLEAN, data \in Records :
          /\ exists \/ data = EmptyRecord
          /\ json_exists' = exists
          /\ json_data' = data
          /\ json_info' = GetJsonInfoForFile(exists, data)
    /\ pc' = "locate_loaded"
    /\ UNCHANGED <<files, visitVars, resolveVars, line_num, nearest, structVars, travVars>>

FindNearestEntityCall ==
    /\ pc = "locate_loaded"
    /\ \E line \in 1..MaxLine :
          /\ line_num' = line
          /\ nearest' = FindNearestEntity(json_info, line)
    /\ pc' = "locate_done"
    /\ UNCHANGED <<files, visitVars, resolveVars, json_exists, json_data, json_info, structVars, travVars>>

NextLocate == GetJsonInfoForFileCall \/ FindNearestEntityCall

SpecLocate == InitLocate /\ [][NextLocate]_vars

----------------------------------------------------------------------------
(* Claims about the locator (checked under SpecLocate) *)

Located == pc = "locate_done"
ClassesAt == {json_info.classes[k] : k \in 1..Len(json_info.classes)}
FunctionsAt == {json_info.functions[k] : k \in 1..Len(json_info.functions)}
MethodsOf(c) == {c.methods[k] : k \in 1..Len(c.methods)}
ContainingClasses == {c \in ClassesAt : Contains(c, line_num)}
ContainingFunctions == {f \in FunctionsAt : Contains(f, line_num)}

\* C5 (as claimed): when a class containing the line has a method containing
\* the line, the result is "Method M of class C" for such a method and class.
C5_MethodPreferred ==
    Located =>
        ((\E c \in ContainingClasses : \E m \in MethodsOf(c) : Contains(m, line_num))
         => \E c \in ContainingClasses : \E m \in MethodsOf(c) :
                /\ Contains(m, line_num)
                /\ nearest = Method(m.name, c.name))

\* C6 (as claimed): when some class contains the line and no method of a
\* containing class contains it, the result is "Inside class C" for a
\* containing class C.
C6_InsideClass ==
    Located =>
        ((/\ ContainingClasses # {}
          /\ \A c \in ContainingClasses : \A m \in MethodsOf(c) : ~Contains(m, line_num))
         => \E c \in ContainingClasses : nearest = InsideClass(c.name))

\* the case of C7: the line is outside every class range, some class is closer
\* to it than every top-level function, and no function contains it
C7_Case ==
    /\ ContainingClasses = {}
    /\ ContainingFunctions = {}
    /\ \E c \in ClassesAt :
          \A f \in FunctionsAt : EdgeDistance(c, line_num) < EdgeDistance(f, line_num)

\* the first function, in iteration order, of minimum distance to the line
FirstNearestFunction ==
    LET fs == json_info.functions
        k == CHOOSE i \in 1..Len(fs) :
                /\ \A j \in 1..Len(fs) :
                      EdgeDistance(fs[i], line_num) <= EdgeDistance(fs[j], line_num)
                /\ \A j \in 1..(i - 1) :
                      EdgeDistance(fs[j], line_num) > EdgeDistance(fs[i], line_num)
    IN fs[k]

ClassProducesMatch == \E c \in ContainingClasses : c.methods # <<>>

\* C8: a function result is returned only when no class produced a match; then
\* a line contained in some function gives "Function F" for a containing F,
\* and a line contained in none gives "Near function F" for the first
\* function of minimum distance.
C8_FunctionsAfterClasses ==
    Located =>
        IF ClassProducesMatch
        THEN nearest.kind \in {"Method", "Inside class"}
        ELSE IF ContainingFunctions # {}
             THEN \E f \in ContainingFunctions : nearest = Function(f.name)
             ELSE IF json_info.functions # <<>>
                  THEN nearest = NearFunction(FirstNearestFunction.name)
                  ELSE nearest = NoEntity

\* C8 witness: two functions equally far from a line neither contains, the
\* first one reported
C8_Witness ==
    /\ Located
    /\ ~ClassProducesMatch
    /\ Len(json_info.functions) >= 2
    /\ ContainingFunctions = {}
    /\ EdgeDistance(json_info.functions[1], line_num)
          = EdgeDistance(json_info.functions[2], line_num)
    /\ nearest = NearFunction(json_info.functions[1].name)

\* C9: with no JSON record on disk, or with a record that has neither classes
\* nor functions, the result is "No nearby entity found" for every line.
C9_MissingRecord ==
    Located =>
        /\ ~json_exists => nearest = NoEntity
        /\ (json_data.classes = <<>> /\ json_data.functions = <<>>) => nearest = NoEntity

\* C9 witness: the lookup of a file without a JSON record
C9_Witness ==
    /\ Located
    /\ ~json_exists
    /\ json_info = EmptyRecord
    /\ nearest = NoEntity

----------------------------------------------------------------------------
(* The inner_project_dependencies tree                                     *)
(*                                                                         *)
(* A Python dict is the sequence of its items in insertion order.  An item *)
(* [key, t, s, l, d] holds, by its type t, a string s (a path), a list l   *)
(* of module entries or a nested dict d.  A path string "./a/x.py" is the  *)
(* path <<Dot, a, x.py>>.                                                  *)

Dot == [n |-> ".", ext |-> ""]

StrItem(key, path) == [key |-> key, t |-> "str", s |-> path, l |-> <<>>, d |-> <<>>]
ListItem(key, list) == [key |-> key, t |-> "list", s |-> <<>>, l |-> list, d |-> <<>>]
DictItem(key, dict) == [key |-> key, t |-> "dict", s |-> <<>>, l |-> <<>>, d |-> dict]

\* key in dict
HasKey(dict, key) == \E k \in 1..Len(dict) : dict[k].key = key
KeyIndex(dict, key) == CHOOSE k \in 1..Len(dict) : dict[k].key = key
\* dict[key]
Get(dict, key) == dict[KeyIndex(dict, key)]
\* dict[key] = item: a new key goes last, an old key keeps its place
Put(dict, item) ==
    IF HasKey(dict, item.key)
    THEN [dict EXCEPT ![KeyIndex(dict, item.key)] = item]
    ELSE Append(dict, item)

\* rel_path.parts.index(p)+1: the first position holding component p
FirstIndex(parts, p) == CHOOSE i \in 1..Len(parts) :
                            parts[i] = p /\ \A j \in 1..(i - 1) : parts[j] # p

\* './' + str(rel_path)
DotSlash(rel_path) == <<Dot>> \o rel_path

\* lines 233-247 for one import: walk the directories parts[k..], creating
\* missing nodes, then append the module entry under 'modules'
RECURSIVE InsertDep(_, _, _, _, _)
InsertDep(current, parts, k, rel_path, entry) ==
    IF k > Len(parts)
    THEN IF HasKey(current, "modules")
         THEN Put(current, ListItem("modules", Append(Get(current, "modules").l, entry)))
         ELSE Put(current, ListItem("modules", <<entry>>))
    ELSE LET p == parts[k]
             node == IF HasKey(current, p.n)
                     THEN Get(current, p.n).d
                     ELSE <<StrItem("path", DotSlash(Take(rel_path, FirstIndex(rel_path, p))))>>
         IN Put(current, DictItem(p.n, InsertDep(node, parts, k + 1, rel_path, entry)))

\* DependencyAnalyzer._build_inner_deps_structure
RECURSIVE BuildInnerDepsStructure(_)
BuildInnerDepsStructure(internal_deps) ==
    IF internal_deps = <<>>
    THEN <<>>
    ELSE LET dep == Last(internal_deps)
             rel_path == dep.path
             structure == BuildInnerDepsStructure(Take(internal_deps, Len(internal_deps) - 1))
         IN InsertDep(structure, Take(rel_path, Len(rel_path) - 1), 1, rel_path,
                      [name |-> Last(rel_path).n,
                       path |-> DotSlash(rel_path),
                       sub_modules |-> dep.sub_modules])

\* mod_path.strip('./') on a path string: the leading "./" goes (names are
\* identifiers and files end in ".py", so nothing else is stripped)
RECURSIVE StripDotSlash(_)
StripDotSlash(mod_path) ==
    IF mod_path # <<>> /\ Head(mod_path) = Dot
    THEN StripDotSlash(Tail(mod_path))
    ELSE mod_path

\* the loop bodies of lines 61-69, 73-81, 87-96: the calls made for a list
\* of module entries, in order
RECURSIVE ModuleCalls(_, _)
ModuleCalls(fs, list) ==
    IF list = <<>>
    THEN <<>>
    ELSE LET mod_path == Head(list).path
             mod_real_path == StripDotSlash(mod_path)
         IN (IF mod_path # <<>> /\ Exists(fs, mod_real_path)
             THEN <<mod_real_path>>
             ELSE <<>>) \o ModuleCalls(fs, Tail(list))

\* a mutant: a directory node that has modules is also searched for nested
\* directory nodes
RECURSIVE RecurseCalls_Deep(_, _)
RecurseCalls_Deep(fs, deps) ==
    IF deps = <<>>
    THEN <<>>
    ELSE LET item == Head(deps)
         IN (IF item.t = "list"
             THEN ModuleCalls(fs, item.l)
             ELSE IF item.t = "dict"
                  THEN RecurseCalls_Deep(fs, item.d)
                  ELSE <<>>) \o RecurseCalls_Deep(fs, Tail(deps))

\* DependencyAnalyzer._recurse_inner_dependencies: the files handed to
\* _recursive_analyze_file, in call order
RECURSIVE RecurseCalls(_, _)
RecurseCalls(fs, deps) ==
    IF deps = <<>>
    THEN <<>>
    ELSE LET item == Head(deps)
         IN (IF item.key = "modules" /\ item.t = "list"
             THEN ModuleCalls(fs, item.l)
             ELSE IF item.t = "dict"
                  THEN IF HasKey(item.d, "modules") /\ Get(item.d, "modules").t = "list"
                       THEN ModuleCalls(fs, Get(item.d, "modules").l)
                       ELSE RecurseCalls(fs, item.d)
                  ELSE IF item.t = "list"
                       THEN ModuleCalls(fs, item.l)
                       ELSE <<>>) \o RecurseCalls(fs, Tail(deps))

----------------------------------------------------------------------------
(* build_project_structure.extract_internal_module_paths                   *)

Range(seq) == {seq[k] : k \in 1..Len(seq)}
Perms(S) == {q \in [1..Cardinality(S) -> S] : \A i, j \in 1..Cardinality(S) : q[i] = q[j] => i = j}

\* a mutant: the collected list is returned as it is
Dedup_Keep(result) == {result}

\* list(set(result)): the distinct elements, in an order the hash decides
Dedup(result) == Perms(Range(result))

OneOf(S) == CHOOSE x \in S : TRUE

\* the `mp = ...get("path"); if mp: result.append(mp)` of lines 71-74, 81-85
RECURSIVE EntryPaths(_)
EntryPaths(list) ==
    IF list = <<>>
    THEN <<>>
    ELSE (IF Head(list).path # <<>> THEN <<Head(list).path>> ELSE <<>>)
         \o EntryPaths(Tail(list))

\* the list branch (lines 79-87); the recursion into a module entry adds
\* nothing: an entry has no 'modules' key and its only list holds strings
ExtractFromList(list) == Dedup(EntryPaths(list))

\* the dict branch (lines 68-78): the possible return values
RECURSIVE ExtractFromDict(_)
RECURSIVE ExtendFromItems(_)
ExtendFromItems(items) ==
    IF items = <<>>
    THEN <<>>
    ELSE (IF Head(items).t = "dict"
          THEN OneOf(ExtractFromDict(Head(items).d))
          ELSE IF Head(items).t = "list"
               THEN OneOf(ExtractFromList(Head(items).l))
               ELSE <<>>) \o ExtendFromItems(Tail(items))

ExtractFromDict(inner_deps) ==
    Dedup((IF HasKey(inner_deps, "modules") /\ Get(inner_deps, "modules").t = "list"
           THEN EntryPaths(Get(inner_deps, "modules").l)
           ELSE <<>>) \o ExtendFromItems(inner_deps))

ExtractInternalModulePaths(inner_deps) == ExtractFromDict(inner_deps)

----------------------------------------------------------------------------
(* build_project_structure.build_project_structure                         *)

\* project_path / rel as the absolute string str(file_path)
Slash == [n |-> "/", ext |-> ""]
AbsPath(rel_path) == <<Slash>> \o rel_path

\* the JSON file of a source file: rel_path.parent / (rel_path.stem + ".json")
JsonPath(rel_path) ==
    Take(rel_path, Len(rel_path) - 1) \o <<[n |-> Last(rel_path).n, ext |-> ".json"]>>

\* adjacency_list[file_path].append(dep_path) for every dep_path of the list
RECURSIVE AppendTargets(_, _, _)
AppendTargets(adjacency, file_path, deps) ==
    IF deps = <<>>
    THEN adjacency
    ELSE AppendTargets(
            IF \E k \in 1..Len(adjacency) : adjacency[k].key = file_path
            THEN [k \in 1..Len(adjacency) |->
                    IF adjacency[k].key = file_path
                    THEN [adjacency[k] EXCEPT !.targets = Append(@, Head(deps))]
                    ELSE adjacency[k]]
            ELSE Append(adjacency, [key |-> file_path, targets |-> <<Head(deps)>>]),
            file_path, Tail(deps))

\* modules_info[file_path] = {...}
PutModule(modules_info, file_path, deps) ==
    IF \E k \in 1..Len(modules_info) : modules_info[k].path = file_path
    THEN [k \in 1..Len(modules_info) |->
            IF modules_info[k].path = file_path
            THEN [path |-> file_path, internal_dependencies |-> deps]
            ELSE modules_info[k]]
    ELSE Append(modules_info, [path |-> file_path, internal_dependencies |-> deps])

\* the loop of lines 16-43 over json_files[k..], with lists[jf] the value
\* extract_internal_module_paths returned for file jf
RECURSIVE GatherFiles(_, _, _, _, _, _)
GatherFiles(folder, json_files, lists, k, modules_info, adjacency) ==
    IF k > Len(json_files)
    THEN [modules |-> modules_info, adjacency |-> adjacency]
    ELSE LET data == folder[json_files[k]]
             file_path == data.path
         IN IF file_path = <<>>
            THEN GatherFiles(folder, json_files, lists, k + 1, modules_info, adjacency)
            ELSE GatherFiles(folder, json_files, lists, k + 1,
                    PutModule(modules_info, file_path, lists[json_files[k]]),
                    AppendTargets(adjacency, file_path, lists[json_files[k]]))

\* [{"from": src, "to": dst} for src, targets in items for dst in targets]
RECURSIVE EdgesOf(_)
EdgesOf(adjacency) ==
    IF adjacency = <<>>
    THEN <<>>
    ELSE [k \in 1..Len(Head(adjacency).targets) |->
            [from |-> Head(adjacency).key, to |-> Head(adjacency).targets[k]]]
         \o EdgesOf(Tail(adjacency))

\* the project_structure of lines 47-56
BuildProjectStructure(folder, json_files, lists) ==
    LET g == GatherFiles(folder, json_files, lists, 1, <<>>, <<>>)
    IN [built |-> TRUE,
        modules |-> g.modules,
        nodes |-> [k \in 1..Len(g.modules) |-> g.modules[k].path],
        edges |-> EdgesOf(g.adjacency)]

\* the file_info of lines 122-130 for a parsed file (classes and functions
\* are not read by the graph part of the aggregator)
FileInfo(rel_path, internal_deps, external_deps) ==
    [path |-> DotSlash(rel_path),
     error |-> FALSE,
     inner_project_dependencies |-> BuildInnerDepsStructure(internal_deps),
     external_dependencies |-> external_deps]

\* a mutant: the error record carries no path
ErrorInfo_NoPath(rel_path) ==
    [path |-> <<>>,
     error |-> TRUE,
     inner_project_dependencies |-> <<>>,
     external_dependencies |-> <<>>]

\* the file_info of line 113 for a file that does not parse
ErrorInfo(rel_path) ==
    [path |-> AbsPath(rel_path),
     error |-> TRUE,
     inner_project_dependencies |-> <<>>,
     external_dependencies |-> <<>>]

\* the values extract_internal_module_paths may return for the records of
\* the JSON files in jfs, one value per file
RECURSIVE ExtractedLists(_, _)
ExtractedLists(folder, jfs) ==
    IF jfs = {}
    THEN {<<>>}
    ELSE LET jf == CHOOSE x \in jfs : TRUE
         IN { (jf :> pr[1]) @@ pr[2] :
                pr \in ExtractInternalModulePaths(folder[jf].inner_project_dependencies)
                       \X ExtractedLists(folder, jfs \ {jf}) }

\* the possible results of rglob("*.json") and of the per-file extraction
BuildChoices(folder) ==
    Perms(DOMAIN folder) \X ExtractedLists(folder, DOMAIN folder)

----------------------------------------------------------------------------
(* The aggregator run: records of two source files are written, each from  *)
(* a list of resolved internal imports, then build_project_structure runs. *)

StructSources == { <<Py("main")>>, <<Py("s")>> }
StructTargets == { <<Py("s")>>, <<Dir("a"), Py("x")>>, <<Dir("a"), Dir("b"), Py("y")>> }
StructDeps == { [found |-> TRUE, name |-> Last(t).n, path |-> t, sub_modules |-> <<>>]
                : t \in StructTargets }

InitStruct ==
    /\ pc = "struct_start"
    /\ files = StructSources \cup StructTargets
    /\ ResolveIdle
    /\ LocIdle
    /\ StructIdle
    /\ TravIdle
    /\ VisitIdle

\* lines 122-130 and _write_file_info_to_json for one source file
WriteFileInfoToJson ==
    /\ pc = "struct_start"
    /\ \E src \in StructSources, deps \in SeqsUpTo(StructDeps, MaxDeps) :
          /\ JsonPath(src) \notin DOMAIN json_folder
          /\ json_folder' = json_folder @@ (JsonPath(src) :> FileInfo(src, deps, <<>>))
    /\ UNCHANGED <<pc, files, visitVars, resolveVars, locVars, project_structure, travVars>>

BuildProjectStructureCall ==
    /\ pc = "struct_start"
    /\ \E c \in BuildChoices(json_folder) :
          project_structure' = BuildProjectStructure(json_folder, c[1], c[2])
    /\ pc' = "struct_done"
    /\ UNCHANGED <<files, visitVars, resolveVars, locVars, json_folder, travVars>>

NextStruct == WriteFileInfoToJson \/ BuildProjectStructureCall

SpecStruct == InitStruct /\ [][NextStruct]_vars

----------------------------------------------------------------------------
(* Claims about the aggregator (checked under SpecStruct) *)

\* the module paths in any modules list at any nesting depth of a tree
RECURSIVE TreeEntryPaths(_)
TreeEntryPaths(dict) ==
    UNION { IF dict[k].t = "list"
            THEN {dict[k].l[i].path : i \in 1..Len(dict[k].l)}
            ELSE IF dict[k].t = "dict"
                 THEN TreeEntryPaths(dict[k].d)
                 ELSE {}
            : k \in 1..Len(dict) }

EdgeCount(from, to) ==
    Cardinality({k \in 1..Len(project_structure.edges) :
                    project_structure.edges[k] = [from |-> from, to |-> to]})

ModuleOf(path) ==
    CHOOSE m \in Range(project_structure.modules) : m.path = path

\* C10: for every record, the list extract_internal_module_paths returned
\* holds each module path of the record's tree exactly once and nothing else,
\* and the graph has exactly one edge from the record's path to each of these
\* targets, whatever the other records import; every edge comes from a record.
C10_OneEdgePerTarget ==
    pc = "struct_done" =>
        /\ \A jf \in DOMAIN json_folder :
              LET rec == json_folder[jf]
                  targets == TreeEntryPaths(rec.inner_project_dependencies)
                  returned == ModuleOf(rec.path).internal_dependencies
              IN /\ Range(returned) = targets
                 /\ Len(returned) = Cardinality(targets)
                 /\ \A t \in targets : EdgeCount(rec.path, t) = 1
        /\ \A k \in 1..Len(project_structure.edges) :
              \E jf \in DOMAIN json_folder :
                 /\ project_structure.edges[k].from = json_folder[jf].path
                 /\ project_structure.edges[k].to
                       \in TreeEntryPaths(json_folder[jf].inner_project_dependencies)

\* C10 witness: two records import the same file of a nested directory, one of
\* them twice; the graph holds one edge per record to it
C10_Witness ==
    /\ pc = "struct_done"
    /\ LET y == DotSlash(<<Dir("a"), Dir("b"), Py("y")>>)
           main == json_folder[JsonPath(<<Py("main")>>)]
       IN /\ DOMAIN json_folder = {JsonPath(src) : src \in StructSources}
          /\ \A jf \in DOMAIN json_folder :
                y \in TreeEntryPaths(json_folder[jf].inner_project_dependencies)
          /\ \E k \in 1..Len(main.inner_project_dependencies) :
                /\ main.inner_project_dependencies[k].key = "a"
                /\ Len(Get(Get(main.inner_project_dependencies[k].d, "b").d, "modules").l) = 2
          /\ Len(project_structure.edges) = 2

----------------------------------------------------------------------------
(* The traversal run: DependencyAnalyzer.analyze_from_entry on a project.  *)
(* The recursion is kept as a stack: a frame is one running                *)
(* _recurse_inner_dependencies loop, with the calls it still has to make   *)
(* and the depth of the file whose tree it walks.                          *)

EntryFile == <<Py("main")>>
ProjectFiles ==
    { EntryFile, <<Py("s")>>, <<Dir("a"), Py("x")>>, <<Dir("a"), Dir("b"), Py("y")>> }
FileOrder == <<EntryFile, <<Py("s")>>, <<Dir("a"), Py("x")>>, <<Dir("a"), Dir("b"), Py("y")>>>>

\* the import statements a project file may hold
TraverseImports == { <<"s">>, <<"a", "x">>, <<"a", "b", "y">>, <<"main">>, <<"os">> }

\* the files the imports of file f resolve to
ResolvedFile == [imp \in TraverseImports |-> ResolveImport(ProjectFiles, imp).path]
ImportTargets(src, f) ==
    {ResolvedFile[src[f][k]] : k \in DOMAIN src[f]} \ {<<>>}

RECURSIVE ReachableFrom(_, _)
ReachableFrom(src, S) ==
    LET next == S \cup UNION {ImportTargets(src, f) : f \in S}
    IN IF next = S THEN S ELSE ReachableFrom(src, next)

\* the contents of the files FileOrder[k..], in that order, with at most
\* budget import statements in all, each taken from menu
RECURSIVE ContentsOver(_, _, _)
ContentsOver(menu, k, budget) ==
    IF k > Len(FileOrder)
    THEN {<<>>}
    ELSE UNION { LET rests == ContentsOver(menu, k + 1, budget - n)
                 IN { <<pr[1]>> \o pr[2] : pr \in [1..n -> menu] \X rests }
                 : n \in 0..budget }

ContentsFrom(k, budget) == ContentsOver(TraverseImports, k, budget)

FileIndex(f) == CHOOSE k \in DOMAIN FileOrder : FileOrder[k] = f
SourceOf(contents) == [f \in ProjectFiles |-> contents[FileIndex(f)]]

\* the projects: a file that the entry file does not reach is never read and
\* is left without imports
ProjectsOver(menu, budget) ==
    { SourceOf(contents) :
        contents \in { c \in ContentsOver(menu, 1, budget) :
                         \A f \in ProjectFiles \ ReachableFrom(SourceOf(c), {EntryFile}) :
                             c[FileIndex(f)] = <<>> } }

ProjectsWithin(budget) == ProjectsOver(TraverseImports, budget)


EmptyProject == [f \in ProjectFiles |-> <<>>]

InitProject(projects) ==
    /\ pc = "traverse_start"
    /\ \/ files = ProjectFiles /\ source \in projects
       \/ files = ProjectFiles \ {EntryFile} /\ source = EmptyProject
    /\ max_depth \in {NoMaxDepth} \cup 0..MaxDepthCfg
    /\ visited = {}
    /\ stack = <<>>
    /\ analysis_log = <<>>
    /\ ResolveIdle
    /\ LocIdle
    /\ StructIdle
    /\ VisitIdle

InitTraverse == InitProject(ProjectsWithin(MaxImportStmts))

\* the error records written so far
ParseFailures == {jf \in DOMAIN json_folder : json_folder[jf].error}

\* analyze_from_entry, the entry file exists: _recursive_analyze_file(entry)
\* is the one call of the outermost frame, at depth 0
AnalyzeFromEntry ==
    /\ pc = "traverse_start"
    /\ Exists(files, EntryFile)
    /\ stack' = <<[calls |-> <<EntryFile>>, depth |-> -1]>>
    /\ pc' = "traversing"
    /\ UNCHANGED <<files, visitVars, resolveVars, locVars, structVars, source, max_depth, visited,
                   analysis_log>>

\* analyze_from_entry, the entry file does not exist: logged, nothing is done
EntryFileMissing ==
    /\ pc = "traverse_start"
    /\ ~Exists(files, EntryFile)
    /\ pc' = "traverse_done"
    /\ UNCHANGED <<files, visitVars, resolveVars, locVars, structVars, travVars>>

\* the call the innermost loop makes next
Calling == pc = "traversing" /\ stack # <<>> /\ Last(stack).calls # <<>>
NextFile == Head(Last(stack).calls)
NextDepth == Last(stack).depth + 1
\* the stack once that call has returned
AfterCall == [stack EXCEPT ![Len(stack)].calls = Tail(@)]

\* a mutant: the depth test never succeeds
DepthExceeded_Never(depth) == FALSE

\* `if self.max_depth is not None and depth > self.max_depth`
DepthExceeded(depth) == max_depth # NoMaxDepth /\ depth > max_depth

\* `if file_path in self.visited`
AlreadyVisited(file_path) == file_path \in visited

\* a mutant: the visited test never succeeds
AlreadyVisited_Never(file_path) == FALSE

\* _recursive_analyze_file, lines 37-39: depth > max_depth
SkipMaxDepth ==
    /\ Calling
    /\ DepthExceeded(NextDepth)
    /\ stack' = AfterCall
    /\ UNCHANGED <<pc, files, visitVars, resolveVars, locVars, structVars, source, max_depth, visited,
                   analysis_log>>

\* _recursive_analyze_file, lines 40-42: already visited
SkipVisited ==
    /\ Calling
    /\ ~DepthExceeded(NextDepth)
    /\ AlreadyVisited(NextFile)
    /\ stack' = AfterCall
    /\ UNCHANGED <<pc, files, visitVars, resolveVars, locVars, structVars, source, max_depth, visited,
                   analysis_log>>

\* _recursive_analyze_file, lines 43-49, the file parses: analyze, write the
\* record, start the loop over its tree
AnalyzeFile ==
    /\ Calling
    /\ ~DepthExceeded(NextDepth)
    /\ ~AlreadyVisited(NextFile)
    /\ LET classified == ClassifyImports(files, source[NextFile])
           file_info == FileInfo(NextFile, classified.internal, classified.external)
       IN /\ visited' = visited \cup {NextFile}
          /\ analysis_log' = Append(analysis_log, [file |-> NextFile, depth |-> NextDepth])
          /\ json_folder' = (JsonPath(NextFile) :> file_info) @@ json_folder
          /\ stack' = Append(AfterCall,
                             [calls |-> RecurseCalls(files, file_info.inner_project_dependencies),
                              depth |-> NextDepth])
    /\ UNCHANGED <<pc, files, visitVars, resolveVars, locVars, project_structure, source, max_depth>>

\* _recursive_analyze_file, lines 43-49, the file does not parse: the error
\* record is written, its empty tree gives a loop without calls
AnalyzeUnparsableFile ==
    /\ Calling
    /\ ~DepthExceeded(NextDepth)
    /\ ~AlreadyVisited(NextFile)
    /\ Cardinality(ParseFailures) < MaxParseFailures
    /\ visited' = visited \cup {NextFile}
    /\ analysis_log' = Append(analysis_log, [file |-> NextFile, depth |-> NextDepth])
    /\ json_folder' = (JsonPath(NextFile) :> ErrorInfo(NextFile)) @@ json_folder
    /\ stack' = Append(AfterCall, [calls |-> <<>>, depth |-> NextDepth])
    /\ UNCHANGED <<pc, files, visitVars, resolveVars, locVars, project_structure, source, max_depth>>

\* the innermost loop has made all its calls: _recursive_analyze_file returns
ReturnFromFile ==
    /\ pc = "traversing"
    /\ stack # <<>> /\ Last(stack).calls = <<>>
    /\ stack' = Take(stack, Len(stack) - 1)
    /\ pc' = IF Len(stack) = 1 THEN "traverse_done" ELSE "traversing"
    /\ UNCHANGED <<files, visitVars, resolveVars, locVars, structVars, source, max_depth, visited,
                   analysis_log>>

NextTraverse ==
    \/ AnalyzeFromEntry
    \/ EntryFileMissing
    \/ SkipMaxDepth
    \/ SkipVisited
    \/ AnalyzeFile
    \/ AnalyzeUnparsableFile
    \/ ReturnFromFile

SpecTraverse == InitTraverse /\ [][NextTraverse]_vars

----------------------------------------------------------------------------
(* Claims about the traversal.                                             *)

TraverseDone == pc = "traverse_done" /\ Exists(files, EntryFile)
\* the files the entry file reaches through resolved internal imports
Reachable == ReachableFrom(source, {EntryFile})
\* file f imports itself, directly or through other files
OnCycle(f) == f \in ReachableFrom(source, ImportTargets(source, f))
\* how often f was handed to _analyze_single_file
AnalysisCount(f) == Cardinality({k \in DOMAIN analysis_log : analysis_log[k].file = f})
HasRecord(f) == JsonPath(f) \in DOMAIN json_folder
NoLimitNoFailure == max_depth = NoMaxDepth /\ ParseFailures = {}

\* C1: in an acyclic project, with no max depth and no parse failure, once
\* analyze_from_entry has finished every file reachable from the entry file
\* through resolved internal imports was analyzed exactly once and has a
\* persisted record.
C1_ReachableAnalyzedOnce ==
    (TraverseDone /\ NoLimitNoFailure /\ \A f \in Reachable : ~OnCycle(f))
        => \A f \in Reachable : AnalysisCount(f) = 1 /\ HasRecord(f)

\* C2: in a project with an import cycle, once the traversal has finished
\* every file of a cycle the entry file reaches was analyzed exactly once
\* and has a persisted record.
C2_CycleFilesRecordedOnce ==
    (TraverseDone /\ NoLimitNoFailure)
        => \A f \in Reachable : OnCycle(f) => AnalysisCount(f) = 1 /\ HasRecord(f)

\* the parts of the two statements the traversal does keep: no file is
\* analyzed twice, a record belongs to an analyzed file, and every step
\* lowers a measure that is never negative, so that the traversal ends
NeverAnalyzedTwice == \A f \in ProjectFiles : AnalysisCount(f) <= 1
RecordsAreOfVisited == \A f \in ProjectFiles : HasRecord(f) <=> f \in visited
RECURSIVE PendingCalls(_)
PendingCalls(st) == IF st = <<>> THEN 0 ELSE Len(Head(st).calls) + 1 + PendingCalls(Tail(st))
Measure(v, st, p) ==
    (Cardinality(ProjectFiles \ v)) * (MaxImportStmts + 2) + PendingCalls(st)
        + (IF p = "traverse_start" THEN 3 ELSE 0)
TraversalProgress ==
    [][Measure(visited', stack', pc') < Measure(visited, stack, pc)]_vars

----------------------------------------------------------------------------
(* The pipeline run: the traversal, then build_project_structure on the    *)
(* record folder the traversal filled.                                     *)

BuildAfterTraversal ==
    /\ pc = "traverse_done"
    /\ \E c \in BuildChoices(json_folder) :
          project_structure' = BuildProjectStructure(json_folder, c[1], c[2])
    /\ pc' = "graph_done"
    /\ UNCHANGED <<files, visitVars, resolveVars, locVars, json_folder, travVars>>

NextPipeline == NextTraverse \/ BuildAfterTraversal

InitPipeline == InitProject(ProjectsWithin(MaxPipelineImportStmts))

SpecPipeline == InitPipeline /\ [][NextPipeline]_vars

GraphDone == pc = "graph_done"
Nodes == Range(project_structure.nodes)
RecordPaths == {json_folder[jf].path : jf \in DOMAIN json_folder}

\* C11: after a complete traversal into an empty record folder, the graph
\* has as many nodes as the visited set has files: every visited file has
\* one record, and the records' paths are non-empty and distinct, also for
\* the files that failed to parse.
C11_NodesMatchVisited ==
    GraphDone =>
        /\ Len(project_structure.nodes) = Cardinality(visited)
        /\ Cardinality(Nodes) = Cardinality(visited)
        /\ Cardinality(DOMAIN json_folder) = Cardinality(visited)
        /\ \A f \in visited : HasRecord(f) /\ json_folder[JsonPath(f)].path # <<>>
        /\ \A f, g \in visited :
              json_folder[JsonPath(f)].path = json_folder[JsonPath(g)].path => f = g

\* C11 witness: three files were visited, one of them failed to parse, and
\* the graph was built
C11_Witness ==
    /\ GraphDone
    /\ Cardinality(visited) = 3
    /\ ParseFailures # {}
    /\ Len(project_structure.nodes) = 3

----------------------------------------------------------------------------
(* Claims about parse failures and the depth limit (checked under          *)
(* SpecTraverse)                                                           *)

\* the files whose record is an error record
FailedFiles == {f \in ProjectFiles : HasRecord(f) /\ json_folder[JsonPath(f)].error}

\* the files reached from S through resolved imports of files that parsed
RECURSIVE ReachableAround(_, _, _)
ReachableAround(src, S, failed) ==
    LET next == S \cup UNION {ImportTargets(src, f) : f \in S \ failed}
    IN IF next = S THEN S ELSE ReachableAround(src, next, failed)

\* C12: when a visited file failed to parse (no max depth configured), at the
\* end of the traversal it has an error record, and every file that the
\* entry file reaches without passing through a failed file has its record.
C12_FailureContained ==
    (TraverseDone /\ max_depth = NoMaxDepth /\ FailedFiles # {})
        => /\ \A f \in FailedFiles : f \in visited /\ AnalysisCount(f) = 1
           /\ \A f \in ReachableAround(source, {EntryFile}, FailedFiles) : HasRecord(f)

\* C13: with a max depth D configured, a call at a depth above D writes no
\* record and marks nothing visited: every file that is visited or has a
\* record was analyzed at a depth of at most D, and the entry file at depth 0.
C13_DepthLimit ==
    max_depth # NoMaxDepth =>
        /\ \A k \in DOMAIN analysis_log : analysis_log[k].depth <= max_depth
        /\ \A f \in ProjectFiles :
              (f \in visited \/ HasRecord(f)) => AnalysisCount(f) = 1
        /\ analysis_log # <<>> => analysis_log[1] = [file |-> EntryFile, depth |-> 0]

\* C13 witness: main.py imports s, s.py imports a.x, the max depth is 1; the
\* traversal is over, s.py was analyzed at depth 1 and a/x.py, called at
\* depth 2, was not
C13_Witness ==
    /\ TraverseDone
    /\ max_depth = 1
    /\ source[EntryFile] = <<<<"s">>>>
    /\ source[<<Py("s")>>] = <<<<"a", "x">>>>
    /\ analysis_log = <<[file |-> EntryFile, depth |-> 0], [file |-> <<Py("s")>>, depth |-> 1]>>
    /\ ~HasRecord(<<Dir("a"), Py("x")>>)

----------------------------------------------------------------------------
(* The visitor run: DependencyVisitor.analyze_source_code on one module.   *)
(* An AST node is [kind, name, body]: a ClassDef or FunctionDef with the   *)
(* nodes of its body, or a Call with the name of the called function.      *)
(* NodeVisitor's recursion is kept as the list of visits and exits still   *)
(* to be made.                                                             *)

\* names of the class and function definitions, by position in the source
NodeNames == <<"n1", "n2", "n3", "n4", "n5", "n6">>
CallNames == {"h", "k"}

\* the trees of n nodes whose first definition is named NodeNames[id], and
\* the sequences of such trees
RECURSIVE Trees(_, _)
RECURSIVE Forests(_, _)
Trees(id, n) ==
    (IF n = 1
     THEN {[kind |-> "Call", name |-> c, body |-> <<>>] : c \in CallNames}
     ELSE {})
    \cup {[kind |-> pr[1], name |-> NodeNames[id], body |-> pr[2]] :
            pr \in {"ClassDef", "FunctionDef"} \X Forests(id + 1, n - 1)}
Forests(id, n) ==
    IF n = 0
    THEN {<<>>}
    ELSE UNION { { <<pr[1]>> \o pr[2] : pr \in Trees(id, k) \X Forests(id + k, n - k) }
                 : k \in 1..n }

ModuleBodies(nodes) == UNION {Forests(1, n) : n \in 0..nodes}

\* generic_visit(node): the visits of the children, in source order
Visits(body) == [k \in 1..Len(body) |-> [op |-> "visit", node |-> body[k]]]
Leave(op, node) == <<[op |-> op, node |-> node]>>

InitVisit ==
    /\ pc = "visiting"
    /\ files = {}
    /\ ast_body \in ModuleBodies(MaxNodes)
    /\ todo = Visits(ast_body)
    /\ visitor_info = EmptyRecord
    /\ current_class = NoClass
    /\ current_function = NoFunction
    /\ ResolveIdle
    /\ LocIdle
    /\ StructIdle
    /\ TravIdle

Visiting(kind) ==
    /\ pc = "visiting"
    /\ todo # <<>>
    /\ Head(todo).op = "visit"
    /\ Head(todo).node.kind = kind
Leaving(op) ==
    /\ pc = "visiting"
    /\ todo # <<>>
    /\ Head(todo).op = op

\* `self.current_class = None` after generic_visit
AfterClass(cls) == NoClass

\* `self.current_function = None` after generic_visit
AfterFunction(fn) == NoFunction

\* visit_ClassDef up to generic_visit
VisitClassDef ==
    /\ Visiting("ClassDef")
    /\ LET node == Head(todo).node
       IN /\ visitor_info' = [visitor_info EXCEPT !.classes =
                                Put(@, [key |-> node.name, methods |-> <<>>])]
          /\ current_class' = node.name
          /\ todo' = Visits(node.body) \o Leave("leave_class", node) \o Tail(todo)
    /\ UNCHANGED <<pc, files, resolveVars, locVars, structVars, travVars, ast_body,
                   current_function>>

\* visit_ClassDef after generic_visit
LeaveClassDef ==
    /\ Leaving("leave_class")
    /\ current_class' = AfterClass(current_class)
    /\ todo' = Tail(todo)
    /\ UNCHANGED <<pc, files, resolveVars, locVars, structVars, travVars, ast_body,
                   visitor_info, current_function>>

\* visit_FunctionDef up to generic_visit
VisitFunctionDef ==
    /\ Visiting("FunctionDef")
    /\ LET node == Head(todo).node
           function_info == [key |-> node.name,
                             type |-> IF current_class # NoClass THEN "method" ELSE "function",
                             calls |-> <<>>]
       IN /\ visitor_info' =
                IF current_class # NoClass
                THEN [visitor_info EXCEPT
                        !.classes[KeyIndex(visitor_info.classes, current_class)].methods =
                            Put(@, function_info)]
                ELSE [visitor_info EXCEPT !.functions = Put(@, function_info)]
          /\ current_function' = [cls |-> current_class, name |-> node.name]
          /\ todo' = Visits(node.body) \o Leave("leave_function", node) \o Tail(todo)
    /\ UNCHANGED <<pc, files, resolveVars, locVars, structVars, travVars, ast_body,
                   current_class>>

\* visit_FunctionDef after generic_visit
LeaveFunctionDef ==
    /\ Leaving("leave_function")
    /\ current_function' = AfterFunction(current_function)
    /\ todo' = Tail(todo)
    /\ UNCHANGED <<pc, files, resolveVars, locVars, structVars, travVars, ast_body,
                   visitor_info, current_class>>

\* self.current_function["calls"].append(func_name)
AppendCall(info, fn, func_name) ==
    IF fn.cls # NoClass
    THEN LET c == KeyIndex(info.classes, fn.cls)
             m == KeyIndex(info.classes[c].methods, fn.name)
         IN [info EXCEPT !.classes[c].methods[m].calls = Append(@, func_name)]
    ELSE [info EXCEPT !.functions[KeyIndex(info.functions, fn.name)].calls =
                Append(@, func_name)]

\* visit_Call
VisitCall ==
    /\ Visiting("Call")
    /\ visitor_info' = IF current_function # NoFunction
                       THEN AppendCall(visitor_info, current_function, Head(todo).node.name)
                       ELSE visitor_info
    /\ todo' = Tail(todo)
    /\ UNCHANGED <<pc, files, resolveVars, locVars, structVars, travVars, ast_body,
                   current_class, current_function>>

NextVisit ==
    \/ VisitClassDef
    \/ LeaveClassDef
    \/ VisitFunctionDef
    \/ LeaveFunctionDef
    \/ VisitCall

SpecVisit == InitVisit /\ [][NextVisit]_vars

----------------------------------------------------------------------------
(* Claims about the visitor (checked under SpecVisit) *)

VisitDone == pc = "visiting" /\ todo = <<>>

\* the function definitions of a body: each with its nearest enclosing class
\* (cls), whether it lies inside another function (nested), and its body
RECURSIVE Defs(_, _, _)
Defs(body, cls, nested) ==
    UNION { LET node == body[k]
            IN IF node.kind = "ClassDef"
               THEN Defs(node.body, node.name, nested)
               ELSE IF node.kind = "FunctionDef"
                    THEN {[name |-> node.name, cls |-> cls, nested |-> nested,
                           body |-> node.body]}
                         \cup Defs(node.body, cls, TRUE)
                    ELSE {}
            : k \in 1..Len(body) }

FunctionDefs == Defs(ast_body, NoClass, FALSE)

\* the names of the calls of a body, in source order
RECURSIVE CallsIn(_)
CallsIn(body) ==
    IF body = <<>>
    THEN <<>>
    ELSE (IF Head(body).kind = "Call" THEN <<Head(body).name>> ELSE CallsIn(Head(body).body))
         \o CallsIn(Tail(body))

\* the recorded function_info entries
FunctionEntries == Range(visitor_info.functions)
MethodEntries(cls) ==
    UNION {Range(c.methods) : c \in {x \in Range(visitor_info.classes) : x.key = cls}}
AllEntries ==
    FunctionEntries \cup UNION {Range(c.methods) : c \in Range(visitor_info.classes)}

\* C14: after the extraction of a module, every function definition whose
\* nearest enclosing class is C is an entry of C's methods with type
\* "method" and not of the module-level functions, and every function
\* definition with no enclosing class is an entry of functions with type
\* "function", whatever the order of the members of a class body.
C14_MethodsByEnclosingClass ==
    VisitDone =>
        \A d \in FunctionDefs :
            IF d.cls # NoClass
            THEN /\ \E e \in MethodEntries(d.cls) : e.key = d.name /\ e.type = "method"
                 /\ \A e \in FunctionEntries : e.key # d.name
            ELSE \E e \in FunctionEntries : e.key = d.name /\ e.type = "function"

\* C15: after the extraction of a module, a function definition nested in
\* another function has no entry in functions or in any methods mapping, and
\* the calls list of every other function definition holds the names of all
\* calls inside its body, in source order with duplicates kept (so also the
\* calls that follow a nested function definition).
C15_CallsOfEnclosingFunction ==
    VisitDone =>
        \A d \in FunctionDefs :
            IF d.nested
            THEN \A e \in AllEntries : e.key # d.name
            ELSE \E e \in AllEntries : e.key = d.name /\ e.calls = CallsIn(d.body)

----------------------------------------------------------------------------
(* The single-file run: _analyze_single_file on main.py of a project       *)
(* folder, and _write_file_info_to_json of the result.                     *)

RecordFiles ==
    { <<Dir("a"), Dir("a"), Py("m")>>,
      <<Dir("a"), Py("x")>>,
      <<Dir("a"), Py("b")>>,
      <<Dir("a"), Dir("b"), Init_py>>,
      <<Py("b")>> }

\* the import statements main.py may hold
RecordImports ==
    { <<"a", "a", "m">>, <<"a", "x">>, <<"a", "b", "C">>, <<"b">>, <<"os">> }

InitRecord ==
    /\ pc = "record_start"
    /\ \E fs \in SUBSET RecordFiles : files = fs \cup {EntryFile}
    /\ imports \in SeqsUpTo(RecordImports, MaxRecordImports)
    /\ internal = <<>>
    /\ external = <<>>
    /\ LocIdle
    /\ StructIdle
    /\ TravIdle
    /\ VisitIdle

\* _analyze_single_file (the file parses) and _write_file_info_to_json
AnalyzeSingleFile ==
    /\ pc = "record_start"
    /\ LET r == ClassifyImports(files, imports)
       IN /\ internal' = r.internal
          /\ external' = r.external
          /\ json_folder' = (JsonPath(EntryFile) :> FileInfo(EntryFile, r.internal, r.external))
    /\ pc' = "record_done"
    /\ UNCHANGED <<files, visitVars, imports, locVars, project_structure, travVars>>

NextRecord == AnalyzeSingleFile

SpecRecord == InitRecord /\ [][NextRecord]_vars

----------------------------------------------------------------------------
(* Claims about the record's tree (checked under SpecRecord) *)

RecordDone == pc = "record_done"
Tree == json_folder[JsonPath(EntryFile)].inner_project_dependencies

\* the directory nodes of a tree: each with the keys leading to it from the
\* root, its 'path' and its 'modules' list; the root has no keys and stands
\* for the project folder "./"
RECURSIVE TreeNodes(_, _)
TreeNodes(dict, keys) ==
    {[keys |-> keys,
      path |-> IF HasKey(dict, "path") THEN Get(dict, "path").s ELSE <<Dot>>,
      modules |-> IF HasKey(dict, "modules") THEN Get(dict, "modules").l ELSE <<>>]}
    \cup UNION { IF dict[k].t = "dict"
                 THEN TreeNodes(dict[k].d, Append(keys, dict[k].key))
                 ELSE {}
                 : k \in 1..Len(dict) }

\* C16: in the tree of a record, the path of a directory node is "./" plus
\* the directory keys leading to it, and the path of a module entry is the
\* path of the node that holds it followed by the module's file name.
C16_TreePathsJoin ==
    RecordDone =>
        \A node \in TreeNodes(Tree, <<>>) :
            /\ node.path = DotSlash(DirPath(node.keys))
            /\ \A k \in 1..Len(node.modules) :
                  Take(node.modules[k].path, Len(node.modules[k].path) - 1) = node.path

\* the module entries of a tree, at any depth
TreeEntries(dict) ==
    UNION {Range(node.modules) : node \in TreeNodes(dict, <<>>)}

\* C17: for every resolved internal import, the module entry of the record
\* for the resolved file is named by the last component of the resolved
\* prefix, whether the prefix resolved to a file or to a package initializer.
C17_EntryNamedByPrefix ==
    RecordDone =>
        \A k \in 1..Len(internal) :
            /\ \E e \in TreeEntries(Tree) : e.path = DotSlash(internal[k].path)
            /\ \A e \in TreeEntries(Tree) :
                  e.path = DotSlash(internal[k].path) => e.name = internal[k].name

----------------------------------------------------------------------------
(* Claims about the graph of a traversal (checked under SpecPipeline) *)

\* C18: in the graph built from the records of a complete traversal without
\* a max depth, both endpoints of every edge are nodes and are paths of
\* persisted records.
C18_EdgeEndpointsAreNodes ==
    (GraphDone /\ max_depth = NoMaxDepth) =>
        \A k \in 1..Len(project_structure.edges) :
            /\ project_structure.edges[k].from \in Nodes \cap RecordPaths
            /\ project_structure.edges[k].to \in Nodes \cap RecordPaths

\* the same for the from endpoint alone
EdgeSourcesAreNodes ==
    GraphDone =>
        \A k \in 1..Len(project_structure.edges) :
            project_structure.edges[k].from \in Nodes \cap RecordPaths

\* the same for the to endpoint, when no file failed to parse and the
\* recursion reached every imported file
EdgeTargetsAreNodesIfAllRecorded ==
    (GraphDone /\ ParseFailures = {} /\ Reachable \subseteq visited) =>
        \A k \in 1..Len(project_structure.edges) :
            project_structure.edges[k].to \in Nodes \cap RecordPaths

----------------------------------------------------------------------------
(* The depth-order run: the traversal on projects whose files import each  *)
(* other along paths of different lengths, with a max depth of up to       *)
(* MaxOrderDepth.                                                          *)

OrderImports == { <<"s">>, <<"a", "x">>, <<"a", "b", "y">> }

InitOrder ==
    /\ pc = "traverse_start"
    /\ \/ files = ProjectFiles /\ source \in ProjectsOver(OrderImports, MaxOrderImportStmts)
       \/ files = ProjectFiles \ {EntryFile} /\ source = EmptyProject
    /\ max_depth \in {NoMaxDepth} \cup 0..MaxOrderDepth
    /\ visited = {}
    /\ stack = <<>>
    /\ analysis_log = <<>>
    /\ ResolveIdle
    /\ LocIdle
    /\ StructIdle
    /\ VisitIdle

SpecOrder == InitOrder /\ [][NextTraverse]_vars

\* the files within d imports of the files of S
RECURSIVE WithinDistance(_, _, _)
WithinDistance(src, S, d) ==
    IF d = 0
    THEN S
    ELSE WithinDistance(src, S \cup UNION {ImportTargets(src, f) : f \in S}, d - 1)

\* the files whose shortest import distance from the entry file is at most
\* the max depth
WithinMaxDepth ==
    IF max_depth = NoMaxDepth
    THEN Reachable
    ELSE WithinDistance(source, {EntryFile}, max_depth)

Recorded == {f \in ProjectFiles : HasRecord(f)}

\* the recursion over the tree of every file calls every file it imports
EveryImportCalled ==
    \A f \in ProjectFiles :
        LET classified == ClassifyImports(files, source[f])
        IN Range(RecurseCalls(files, BuildInnerDepsStructure(classified.internal)))
              = ImportTargets(source, f)

\* C19: at the end of a traversal in which every file parsed (and the
\* recursion over each tree calls every imported file), the files that have a
\* record are the files whose shortest import distance from the entry file
\* is at most the max depth, whatever the order of the imports in a file.
C19_RecordSetByDistance ==
    (TraverseDone /\ ParseFailures = {} /\ EveryImportCalled)
        => Recorded = WithinMaxDepth

\* the same without a max depth
RecordSetIsReachableSet ==
    (TraverseDone /\ ParseFailures = {} /\ EveryImportCalled /\ max_depth = NoMaxDepth)
        => Recorded = Reachable

====
